---- MODULE Spec2Model ----
(***************************************************************************)
(* Cleaning-robot simulation (Mesa): the statistics / time-budget variant  *)
(* of main.py and the minimal round-budget variant of cleaning_robot.py.   *)
(*                                                                         *)
(* One CleaningSimulation object is modelled.  `variant` says which of the *)
(* two modules built it.  A call of CleaningSimulation.step() is the       *)
(* action CleaningSimulation_step / Min_CleaningSimulation_step; when it   *)
(* takes the else-branch, RandomActivation.step() runs: the agents are     *)
(* shuffled (order), then each agent's step() runs in that order (Activate)*)
(* and finally control returns to the simulation, which updates its round  *)
(* counter (ScheduleReturn).  The code is single threaded, so while a      *)
(* round is in progress (pc = "round") nothing else is enabled.            *)
(***************************************************************************)
EXTENDS Integers, Sequences, FiniteSets, TLC

\* ---- bounds of the model ----
MaxCells == 6        \* largest number of tiles (width * height) of a grid
MaxRobots == 2
MaxRounds == 2       \* rounds executed (main.py) / largest round budget
MaxClock == 1        \* largest elapsed time read, and largest maxTime
MaxExtraCalls == 1   \* step() calls made after the simulation has terminated
MaxSide == 10        \* longest side of a room sized like the sliders allow

\* dirtPercentage is a float in the code; the model carries it in tenths.
DirtPercentages == {-5, 0, 3, 10, 20}
Variants == {"main", "minimal"}

VARIABLES
  variant,            \* "main" (main.py) or "minimal" (cleaning_robot.py)
  gridWidth,          \* self.gridWidth / grid.width
  gridHeight,         \* self.gridHeight / grid.height
  robotCount,         \* self.robotCount / robot_count
  dirtPercentage,     \* in tenths
  maxTime,            \* main.py: self.maxTime
  initialDirtyCells,  \* main.py: self.initialDirtyCells
  status,             \* GridTile.status of the tile at each coordinate
  pos,                \* CleaningRobot.pos of each robot placed on the grid
  grid,               \* MultiGrid: the entities each cell holds
  cellsCleaned,       \* main.py: CleaningRobot.cellsCleaned
  totalMovements,     \* main.py: CleaningRobot.totalMovements
  cleanCells,         \* main.py: self.cleanCells
  stepsExecuted,      \* main.py: self.stepsExecuted
  steps_remaining,    \* cleaning_robot.py: self.steps_remaining
  running,            \* Model.running
  now,                \* last value read for time.time() - self.startTime
  pc,                 \* "failed" (constructor raised), "idle", "round"
  order,              \* agents the scheduler has still to activate this round
  err,                \* exception raised by the constructor / the last call
  \* history variables (not program state)
  steps_budget,       \* the steps_remaining argument of the constructor
  rounds,             \* scheduler rounds completed so far
  roundStart,         \* pos, status and the shuffled order when the round began
  extraCalls,         \* step() calls made after running became false
  horizon,            \* "bounded": the run is cut after MaxRounds rounds;
                      \* "unbounded": it is not, and the counters that grow
                      \* without limit (rounds, stepsExecuted,
                      \* totalMovements) are not kept
  \* a cleaning_robot.py simulation run side by side with a main.py one
  twin                \* its status, pos, steps_remaining, running; live while
                      \* both simulations have executed the same rounds

vars == <<variant, gridWidth, gridHeight, robotCount, dirtPercentage, maxTime,
          initialDirtyCells, status, pos, grid, cellsCleaned, totalMovements,
          cleanCells, stepsExecuted, steps_remaining, running, now, pc, order,
          err, steps_budget, rounds, roundStart, extraCalls, horizon, twin>>

config == <<variant, gridWidth, gridHeight, robotCount, dirtPercentage, maxTime,
            initialDirtyCells, steps_budget, horizon>>

\* ---------------------------------------------------------------------
\* Helpers
\* ---------------------------------------------------------------------

\* x += 1 for a counter that grows without limit and steers nothing
Count(x) == IF horizon = "bounded" THEN x + 1 ELSE x

\* [(x, y) for x in range(width) for y in range(height)]
Coordinates(width, height) == (0..(width - 1)) \X (0..(height - 1))

Robots == 1..robotCount

\* The entities a cell can hold: the GridTile created for coordinate c
\* ("tile_x_y") and the CleaningRobot with index r ("robot_i").
GridTile(c) == <<"tile", c>>
CleaningRobot(r) == <<"robot", r>>

RECURSIVE SumOver(_, _)
SumOver(f, S) ==
  IF S = {} THEN 0
  ELSE LET r == CHOOSE x \in S : TRUE IN f[r] + SumOver(f, S \ {r})

\* All orders in which the scheduler's shuffle can leave the set S of agents.
Shuffles(S) ==
  {f \in [1..Cardinality(S) -> S] : \A i, j \in 1..Cardinality(S) : f[i] = f[j] => i = j}

\* ---------------------------------------------------------------------
\* Construction
\* ---------------------------------------------------------------------

\* ---- Python floats (IEEE 754 binary64), as far as line 111 needs them ----
\* A positive float is [exp |-> e, bits |-> b]: b is the significand, most
\* significant bit first, b[1] = 1, and the value is b * 2^(e - Len(b) + 1).

MantissaBits == 53

RECURSIVE Pow2(_)
Pow2(n) == IF n = 0 THEN 1 ELSE 2 * Pow2(n - 1)

RECURSIVE BitsValue(_)
BitsValue(bits) ==
  IF bits = << >> THEN 0 ELSE 2 * BitsValue(SubSeq(bits, 1, Len(bits) - 1)) + bits[Len(bits)]

RECURSIVE Reverse(_)
Reverse(q) == IF q = << >> THEN << >> ELSE Reverse(Tail(q)) \o <<Head(q)>>

\* bits + 1, least significant bit first
RECURSIVE Increment(_)
Increment(lsbFirst) ==
  IF lsbFirst = << >> THEN <<1>>
  ELSE IF Head(lsbFirst) = 0 THEN <<1>> \o Tail(lsbFirst)
       ELSE <<0>> \o Increment(Tail(lsbFirst))

\* Round a significand (least significant bit first) to MantissaBits bits,
\* ties to even; `inexact` says that bits below the given ones were nonzero.
RoundBits(lsbFirst, exp, inexact) ==
  LET drop == Len(lsbFirst) - MantissaBits IN
  IF drop <= 0
  THEN [exp |-> exp, bits |-> Reverse(lsbFirst)]
  ELSE LET kept == SubSeq(lsbFirst, drop + 1, Len(lsbFirst))
           guard == lsbFirst[drop]
           sticky == inexact \/ \E i \in 1..(drop - 1) : lsbFirst[i] = 1
           up == guard = 1 /\ (sticky \/ kept[1] = 1)
           rounded == IF up THEN Increment(kept) ELSE kept
       IN [exp |-> exp, bits |-> Reverse(rounded)]

\* The first `count` bits of rem/den (0 <= rem < den) after the binary point.
RECURSIVE FractionBits(_, _, _)
FractionBits(rem, den, count) ==
  IF count = 0 THEN << >>
  ELSE LET bit == IF 2 * rem >= den THEN 1 ELSE 0
       IN <<bit>> \o FractionBits(2 * rem - bit * den, den, count - 1)

RECURSIVE FractionRest(_, _, _)
FractionRest(rem, den, count) ==
  IF count = 0 THEN rem
  ELSE FractionRest(2 * rem - (IF 2 * rem >= den THEN den ELSE 0), den, count - 1)

\* The exponent e with 2^e <= num/den < 2^(e+1), for num, den > 0.
RECURSIVE Exponent(_, _)
Exponent(num, den) ==
  IF num < den THEN Exponent(2 * num, den) - 1
  ELSE IF num >= 2 * den THEN Exponent(num, 2 * den) + 1
       ELSE 0

\* The float nearest to num/den (num, den > 0): what the literal denotes.
FloatOf(num, den) ==
  LET e == Exponent(num, den)
      n == IF e < 0 THEN num * Pow2(-e) ELSE num
      d == IF e > 0 THEN den * Pow2(e) ELSE den
      bits == <<1>> \o FractionBits(n - d, d, MantissaBits)
      rest == FractionRest(n - d, d, MantissaBits)
  IN RoundBits(Reverse(bits), e, rest # 0)

\* n * bits, least significant bit first (n >= 1)
RECURSIVE TimesBits(_, _, _)
TimesBits(lsbFirst, n, carry) ==
  IF lsbFirst = << >>
  THEN (IF carry = 0 THEN << >> ELSE <<carry % 2>> \o TimesBits(<< >>, n, carry \div 2))
  ELSE LET t == n * Head(lsbFirst) + carry
       IN <<t % 2>> \o TimesBits(Tail(lsbFirst), n, t \div 2)

\* n * f for an int n >= 1 (converted exactly) and a float f
FloatTimesInt(n, f) ==
  LET product == TimesBits(Reverse(f.bits), n, 0)
  IN RoundBits(product, f.exp + (Len(product) - Len(f.bits)), FALSE)

\* int(f) for a positive float f
FloatToInt(f) ==
  LET whole == f.exp + 1   \* number of bits before the binary point
  IN IF whole <= 0 THEN 0
     ELSE IF whole >= Len(f.bits) THEN BitsValue(f.bits) * Pow2(whole - Len(f.bits))
     ELSE BitsValue(SubSeq(f.bits, 1, whole))

\* The float values of the literals |dirtTenths| / 10
FloatTenths == [t \in 1..20 |-> FloatOf(t, 10)]

\* int(n * p) for every cell count n and every literal p = t / 10 in range
IntOfProduct ==
  [n \in 1..(MaxSide * MaxSide), t \in 1..20 |->
     FloatToInt(FloatTimesInt(n, FloatTenths[t]))]

\* int(width * height * dirtPercentage): the int width * height times the
\* float dirtPercentage (dirtTenths / 10), truncated toward zero
DirtyCount(width, height, dirtTenths) ==
  IF width * height = 0 \/ dirtTenths = 0 THEN 0
  ELSE IF dirtTenths > 0
       THEN IntOfProduct[width * height, dirtTenths]
       ELSE -IntOfProduct[width * height, -dirtTenths]

\* random.sample(population, k) raises ValueError unless 0 <= k <= len(population)
SampleRaises(width, height, k) ==
  k < 0 \/ k > Cardinality(Coordinates(width, height))

\* faulty variant: off by one, x = width and y = height pass as inside the grid
out_of_bounds_inclusive(width, height, p) ==
  ~(0 <= p[1] /\ p[1] <= width /\ 0 <= p[2] /\ p[2] <= height)

\* MultiGrid.out_of_bounds
out_of_bounds(width, height, p) ==
  ~(0 <= p[1] /\ p[1] < width /\ 0 <= p[2] /\ p[2] < height)

initialPosition == <<1, 1>>

\* The exception the constructor raises, or "none".
ConstructorError(width, height, count, dirtTenths) ==
  IF SampleRaises(width, height, DirtyCount(width, height, dirtTenths))
  THEN "ValueError"
  ELSE IF count >= 1 /\ out_of_bounds(width, height, initialPosition)
       THEN "IndexError"
       ELSE "none"

\* The tiles created from the sampled dirty positions.
Tiles(width, height, dirtyPositions) ==
  [c \in Coordinates(width, height) |-> IF c \in dirtyPositions THEN 1 ELSE 0]

\* random.sample(allCells, k) as a set: every k-subset of a grid of at most
\* MaxCells cells; of a larger grid only the first k and the last k cells of
\* allCells, which lists the cells by x and then by y.
sample(width, height, k) ==
  IF width * height <= MaxCells
  THEN {cells \in SUBSET Coordinates(width, height) : Cardinality(cells) = k}
  ELSE {{c \in Coordinates(width, height) :
           c[1] * height + c[2] \in first..(first + k - 1)} :
        first \in {0, width * height - k}}

\* State of the object after `CleaningSimulation(...)`; when the constructor
\* raises, no object exists and pc = "failed" (nothing is enabled).
setupEnvironment(width, height, count, dirtTenths) ==
  LET e == ConstructorError(width, height, count, dirtTenths)
      k == DirtyCount(width, height, dirtTenths)
  IN /\ err = e
     /\ pc = IF e = "none" THEN "idle" ELSE "failed"
     /\ IF e = "ValueError"
        THEN status = Tiles(0, 0, {})
        ELSE \E dirtyPositions \in sample(width, height, k) :
               status = Tiles(width, height, dirtyPositions)
     /\ pos = IF e = "none" THEN [r \in 1..count |-> initialPosition] ELSE << >>
     /\ grid = [c \in Coordinates(width, height) |->
                 (IF e = "ValueError" THEN {} ELSE {GridTile(c)})
                 \cup (IF e = "none" /\ c = initialPosition
                       THEN {CleaningRobot(r) : r \in 1..count} ELSE {})]
     /\ cellsCleaned = [r \in DOMAIN pos |-> 0]
     /\ totalMovements = [r \in DOMAIN pos |-> 0]

\* CleaningSimulation(width, height, robotCount, dirtPercentage, maxTime) of
\* main.py, or CleaningSimulation(robot_count, grid_width, grid_height,
\* steps_remaining, dirt_percentage) of cleaning_robot.py
CleaningSimulation_init(v, width, height, count, dirtTenths, t, n) ==
    /\ variant = v
    /\ gridWidth = width
    /\ gridHeight = height
    /\ robotCount = count
    /\ dirtPercentage = dirtTenths
    /\ IF v = "main"
       THEN /\ maxTime = t
            /\ n = 0
            /\ initialDirtyCells = DirtyCount(width, height, dirtTenths)
       ELSE /\ maxTime = 0
            /\ t = 1
            /\ initialDirtyCells = 0
    /\ steps_remaining = n
    /\ steps_budget = n
    /\ setupEnvironment(width, height, count, dirtTenths)
    /\ cleanCells = 0
    /\ stepsExecuted = 0
    /\ running = TRUE
    /\ now = 0
    /\ order = << >>
    /\ rounds = 0
    /\ roundStart = << >>
    /\ extraCalls = 0

\* no second simulation runs alongside
NoTwin == [live |-> FALSE]

Init ==
  \E v \in Variants, width \in 0..MaxCells, height \in 0..MaxCells,
     count \in 0..MaxRobots, dirtTenths \in DirtPercentages,
     t \in 1..MaxClock, n \in 0..MaxRounds :
    /\ width * height <= MaxCells
    /\ CleaningSimulation_init(v, width, height, count, dirtTenths, t, n)
    /\ horizon = "bounded"
    /\ twin = NoTwin

\* A room as large as the sliders of main.py allow (sides 5 to 20, dirt 0.1
\* to 0.9), with one robot.
RoomSides == 9..MaxSide
RoomDirtPercentages == {3, 7}

InitRoom ==
  \E v \in Variants, width \in RoomSides, height \in RoomSides,
     dirtTenths \in RoomDirtPercentages, t \in 1..MaxClock, n \in 0..MaxRounds :
    /\ CleaningSimulation_init(v, width, height, 1, dirtTenths, t, n)
    /\ horizon = "bounded"
    /\ twin = NoTwin

\* ---------------------------------------------------------------------
\* Grid
\* ---------------------------------------------------------------------

\* faulty variant: the grid is a torus, neighbourhoods wrap around the edges
get_neighborhood_torus(p) ==
  {<<c[1] % gridWidth, c[2] % gridHeight>> :
     c \in ((p[1] - 1)..(p[1] + 1)) \X ((p[2] - 1)..(p[2] + 1))} \ {p}

\* MultiGrid.get_neighborhood(pos, moore=True, include_center=False), torus False
get_neighborhood(p) ==
  {c \in ((p[1] - 1)..(p[1] + 1)) \X ((p[2] - 1)..(p[2] + 1)) :
     c # p /\ ~out_of_bounds(gridWidth, gridHeight, c)}

\* faulty variant: the agent is added to the new cell, not removed from the old
move_agent_noRemove(r, p) ==
  [grid EXCEPT ![p] = @ \cup {CleaningRobot(r)}]

\* MultiGrid.move_agent(agent, pos): the cell contents after the move
move_agent(r, p) ==
  [grid EXCEPT ![pos[r]] = @ \ {CleaningRobot(r)}, ![p] = @ \cup {CleaningRobot(r)}]

\* ---------------------------------------------------------------------
\* main.py
\* ---------------------------------------------------------------------

\* History: what the simulation looked like when schedule.step() was called
Snapshot(shuffled) ==
  [pos |-> pos, status |-> status, order |-> shuffled,
   cellsCleaned |-> cellsCleaned, totalMovements |-> totalMovements,
   cleanCells |-> cleanCells, stepsExecuted |-> stepsExecuted]

\* faulty variant: the filter drops column 0
validCells_strict(p) ==
  {cell \in get_neighborhood(p) :
     0 < cell[1] /\ cell[1] < gridWidth /\ 0 <= cell[2] /\ cell[2] < gridHeight}

\* validCells of CleaningRobot.randomMove
validCells(p) ==
  {cell \in get_neighborhood(p) :
     0 <= cell[1] /\ cell[1] < gridWidth /\ 0 <= cell[2] /\ cell[2] < gridHeight}

\* faulty variant: the movement is not counted
randomMove_uncounted(r) ==
  IF validCells(pos[r]) # {}
  THEN \E nextPosition \in validCells(pos[r]) :
         /\ grid' = move_agent(r, nextPosition)
         /\ pos' = [pos EXCEPT ![r] = nextPosition]
         /\ UNCHANGED totalMovements
  ELSE UNCHANGED <<pos, grid, totalMovements>>

\* faulty variant: the movement is counted twice
randomMove_countTwice(r) ==
  IF validCells(pos[r]) # {}
  THEN \E nextPosition \in validCells(pos[r]) :
         /\ grid' = move_agent(r, nextPosition)
         /\ pos' = [pos EXCEPT ![r] = nextPosition]
         /\ totalMovements' = [totalMovements EXCEPT ![r] = @ + 2]
  ELSE UNCHANGED <<pos, grid, totalMovements>>

\* faulty variant: the movement is counted but the robot is not moved
randomMove_noMove(r) ==
  IF validCells(pos[r]) # {}
  THEN \E nextPosition \in validCells(pos[r]) :
         /\ UNCHANGED <<pos, grid>>
         /\ totalMovements' = [totalMovements EXCEPT ![r] = Count(@)]
  ELSE UNCHANGED <<pos, grid, totalMovements>>

randomMove(r) ==
  IF validCells(pos[r]) # {}
  THEN \E nextPosition \in validCells(pos[r]) :
         /\ grid' = move_agent(r, nextPosition)
         /\ pos' = [pos EXCEPT ![r] = nextPosition]
         /\ totalMovements' = [totalMovements EXCEPT ![r] = Count(@)]
  ELSE UNCHANGED <<pos, grid, totalMovements>>

\* faulty variant: the robot acts on the tile statuses of the start of the
\* round, as if all robots were activated simultaneously
CleaningRobot_step_stale(r) ==
  /\ IF roundStart.status[pos[r]] = 1
     THEN /\ status' = [status EXCEPT ![pos[r]] = 0]
          /\ cellsCleaned' = [cellsCleaned EXCEPT ![r] = @ + 1]
          /\ cleanCells' = cleanCells + 1
          /\ UNCHANGED <<pos, grid, totalMovements>>
     ELSE /\ randomMove(r)
          /\ UNCHANGED <<status, cellsCleaned, cleanCells>>
  /\ order' = Tail(order)
  /\ UNCHANGED <<pc, err>>

\* faulty variant: the model's counter is not incremented
CleaningRobot_step_noGlobal(r) ==
  /\ IF status[pos[r]] = 1
     THEN /\ status' = [status EXCEPT ![pos[r]] = 0]
          /\ cellsCleaned' = [cellsCleaned EXCEPT ![r] = @ + 1]
          /\ UNCHANGED <<cleanCells, pos, grid, totalMovements>>
     ELSE /\ randomMove(r)
          /\ UNCHANGED <<status, cellsCleaned, cleanCells>>
  /\ order' = Tail(order)
  /\ UNCHANGED <<pc, err>>

\* faulty variant: the return after cleaning is missing, the robot cleans and moves
CleaningRobot_step_noReturn(r) ==
  /\ IF status[pos[r]] = 1
     THEN /\ status' = [status EXCEPT ![pos[r]] = 0]
          /\ cellsCleaned' = [cellsCleaned EXCEPT ![r] = @ + 1]
          /\ cleanCells' = cleanCells + 1
     ELSE UNCHANGED <<status, cellsCleaned, cleanCells>>
  /\ randomMove(r)
  /\ order' = Tail(order)
  /\ UNCHANGED <<pc, err>>

\* faulty variant: the robot inspects its neighbourhood instead of its own cell
CleaningRobot_step_neighbours(r) ==
  /\ IF \E c \in get_neighborhood(pos[r]) : status[c] = 1
     THEN /\ \E c \in get_neighborhood(pos[r]) :
               /\ status[c] = 1
               /\ status' = [status EXCEPT ![c] = 0]
          /\ cellsCleaned' = [cellsCleaned EXCEPT ![r] = @ + 1]
          /\ cleanCells' = cleanCells + 1
          /\ UNCHANGED <<pos, grid, totalMovements>>
     ELSE /\ randomMove(r)
          /\ UNCHANGED <<status, cellsCleaned, cleanCells>>
  /\ order' = Tail(order)
  /\ UNCHANGED <<pc, err>>

CleaningRobot_step(r) ==
  /\ IF status[pos[r]] = 1
     THEN /\ status' = [status EXCEPT ![pos[r]] = 0]
          /\ cellsCleaned' = [cellsCleaned EXCEPT ![r] = @ + 1]
          /\ cleanCells' = cleanCells + 1
          /\ UNCHANGED <<pos, grid, totalMovements>>
     ELSE /\ randomMove(r)
          /\ UNCHANGED <<status, cellsCleaned, cleanCells>>
  /\ order' = Tail(order)
  /\ UNCHANGED <<pc, err>>

\* faulty variant: the ratio is not scaled to a percentage
getStatistics_ratio(e) ==
  IF initialDirtyCells = 0
  THEN [error |-> "ZeroDivisionError"]
  ELSE [error |-> "none",
        PorcentajeCompletado |-> [num |-> cleanCells, den |-> initialDirtyCells],
        TiempoTranscurrido |-> e,
        MovimientosTotales |-> SumOver(totalMovements, Robots)]

\* getStatistics() called when the elapsed time is e
getStatistics(e) ==
  IF initialDirtyCells = 0
  THEN [error |-> "ZeroDivisionError"]
  ELSE [error |-> "none",
        PorcentajeCompletado |-> [num |-> cleanCells * 100, den |-> initialDirtyCells],
        TiempoTranscurrido |-> e,
        MovimientosTotales |-> SumOver(totalMovements, Robots)]

\* faulty variant: strict comparison with the time budget
Finished_strict(elapsedTime) ==
  elapsedTime > maxTime \/ cleanCells >= initialDirtyCells

\* faulty variant: the goal condition is forgotten
Finished_timeOnly(elapsedTime) ==
  elapsedTime >= maxTime

\* the condition of the if in CleaningSimulation.step
Finished(elapsedTime) ==
  elapsedTime >= maxTime \/ cleanCells >= initialDirtyCells

\* faulty variant: stepsExecuted += 1 is dedented out of the else branch
CleaningSimulation_step_dedent ==
  /\ variant = "main"
  /\ pc = "idle"
  /\ \E elapsedTime \in now..MaxClock :
       /\ now' = elapsedTime
       /\ IF Finished(elapsedTime)
          THEN /\ running \/ extraCalls < MaxExtraCalls
               /\ running' = FALSE
               /\ err' = getStatistics(elapsedTime).error
               /\ extraCalls' = IF running THEN extraCalls ELSE extraCalls + 1
               /\ stepsExecuted' = stepsExecuted + 1
               /\ UNCHANGED <<pc, order, roundStart>>
          ELSE /\ stepsExecuted < MaxRounds
               /\ pc' = "round"
               /\ \E shuffled \in Shuffles(Robots) :
                    /\ order' = shuffled
                    /\ roundStart' = Snapshot(shuffled)
               /\ err' = "none"
               /\ UNCHANGED <<running, extraCalls, stepsExecuted>>
  /\ UNCHANGED <<config, status, pos, grid, cellsCleaned, totalMovements,
                 cleanCells, steps_remaining, rounds>>

CleaningSimulation_step ==
  /\ variant = "main"
  /\ pc = "idle"
  /\ \E elapsedTime \in now..MaxClock :
       /\ now' = elapsedTime
       /\ IF Finished(elapsedTime)
          THEN /\ running \/ extraCalls < MaxExtraCalls
               /\ running' = FALSE
               /\ err' = getStatistics(elapsedTime).error
               /\ extraCalls' = IF running THEN extraCalls ELSE extraCalls + 1
               /\ UNCHANGED <<pc, order, roundStart>>
          ELSE /\ stepsExecuted < MaxRounds \/ horizon = "unbounded"
               /\ pc' = "round"
               /\ \E shuffled \in Shuffles(Robots) :
                    /\ order' = shuffled
                    /\ roundStart' = Snapshot(shuffled)
               /\ err' = "none"
               /\ UNCHANGED <<running, extraCalls>>
  /\ UNCHANGED <<config, status, pos, grid, cellsCleaned, totalMovements,
                 cleanCells, stepsExecuted, steps_remaining, rounds>>

\* ---------------------------------------------------------------------
\* cleaning_robot.py
\* ---------------------------------------------------------------------

\* random.choice(adjacent_cells) raises IndexError on an empty list
random_move(r) ==
  IF get_neighborhood(pos[r]) = {}
  THEN /\ err' = "IndexError"
       /\ pc' = "idle"
       /\ order' = << >>
       /\ UNCHANGED <<pos, grid>>
  ELSE /\ \E next_position \in get_neighborhood(pos[r]) :
            /\ grid' = move_agent(r, next_position)
            /\ pos' = [pos EXCEPT ![r] = next_position]
       /\ order' = Tail(order)
       /\ UNCHANGED <<pc, err>>

Min_CleaningRobot_step(r) ==
  /\ IF status[pos[r]] = 1
     THEN /\ status' = [status EXCEPT ![pos[r]] = 0]
          /\ order' = Tail(order)
          /\ UNCHANGED <<pos, grid, pc, err>>
     ELSE /\ random_move(r)
          /\ UNCHANGED status
  /\ UNCHANGED <<cellsCleaned, totalMovements, cleanCells>>

\* faulty variant: off by one, the round at budget 0 is still executed
BudgetSpent_negative == steps_remaining < 0

\* the condition of the if in CleaningSimulation.step
BudgetSpent == steps_remaining <= 0

Min_CleaningSimulation_step ==
  /\ variant = "minimal"
  /\ pc = "idle"
  /\ IF BudgetSpent
     THEN /\ running \/ extraCalls < MaxExtraCalls
          /\ running' = FALSE
          /\ extraCalls' = IF running THEN extraCalls ELSE extraCalls + 1
          /\ UNCHANGED <<pc, order, roundStart>>
     ELSE /\ pc' = "round"
          /\ \E shuffled \in Shuffles(Robots) :
               /\ order' = shuffled
               /\ roundStart' = Snapshot(shuffled)
          /\ UNCHANGED <<running, extraCalls>>
  /\ err' = "none"
  /\ UNCHANGED <<config, status, pos, grid, cellsCleaned, totalMovements,
                 cleanCells, stepsExecuted, steps_remaining, rounds, now>>

\* ---------------------------------------------------------------------
\* RandomActivation.step(): one agent.step() per agent, in shuffled order
\* ---------------------------------------------------------------------

Activate ==
  /\ pc = "round"
  /\ order # << >>
  /\ IF variant = "main"
     THEN CleaningRobot_step(Head(order))
     ELSE Min_CleaningRobot_step(Head(order))
  /\ UNCHANGED <<config, stepsExecuted, steps_remaining, running, now, rounds,
                 roundStart, extraCalls>>

\* schedule.step() returns; the statement after it in step() runs.
ScheduleReturn ==
  /\ pc = "round"
  /\ order = << >>
  /\ pc' = "idle"
  /\ rounds' = Count(rounds)
  /\ roundStart' = << >>
  /\ IF variant = "main"
     THEN /\ stepsExecuted' = Count(stepsExecuted)
          /\ UNCHANGED steps_remaining
     ELSE /\ steps_remaining' = steps_remaining - 1
          /\ UNCHANGED stepsExecuted
  /\ UNCHANGED <<config, status, pos, grid, cellsCleaned, totalMovements,
                 cleanCells, running, now, order, err, extraCalls>>

Next ==
  \/ CleaningSimulation_step /\ UNCHANGED twin
  \/ Min_CleaningSimulation_step /\ UNCHANGED twin
  \/ Activate /\ UNCHANGED twin
  \/ ScheduleReturn /\ UNCHANGED twin

Spec == Init /\ [][Next]_vars

\* The same program started in a large room
SpecRoom == InitRoom /\ [][Next]_vars

\* ---------------------------------------------------------------------
\* Runs of any length on a small grid. step() is called again and again
\* while the simulation runs (the server's loop), the scheduler activates
\* each agent of the round, and a robot that chooses among the neighbours of
\* a cell again and again chooses each of them again and again.
\* ---------------------------------------------------------------------

LiveCells == 4
LiveRobots == 1

InitLive ==
  \E v \in Variants, width \in 0..LiveCells, height \in 0..LiveCells,
     count \in 0..LiveRobots, dirtTenths \in DirtPercentages,
     t \in 1..MaxClock, n \in 0..MaxRounds :
    /\ width * height <= LiveCells
    /\ CleaningSimulation_init(v, width, height, count, dirtTenths, t, n)
    /\ horizon = "unbounded"
    /\ twin = NoTwin

\* The cells robots can be on: a grid on which construction succeeds has
\* cell (1,1), so each side is at least 2 and at most LiveCells \div 2.
LiveCoordinates == Coordinates(LiveCells \div 2, LiveCells \div 2)

\* some robot is activated and random.choice returns cell q
Chooses(q) ==
  /\ Activate /\ UNCHANGED twin
  /\ pos[Head(order)] # q
  /\ pos'[Head(order)] = q

\* A robot that chooses again and again among the neighbours of a cell
\* chooses each of them again and again; hence a cell that again and again
\* is among the neighbours some robot chooses from is chosen again and again.
Fairness ==
  /\ WF_vars(Next)
  /\ \A q \in LiveCoordinates : SF_vars(Chooses(q))

SpecLive == InitLive /\ [][Next]_vars /\ Fairness

\* ---------------------------------------------------------------------
\* main.py and cleaning_robot.py side by side: both are constructed with the
\* same grid, dirty cells and robots, their step() is called together, their
\* schedulers shuffle alike and their random.choice calls draw alike.
\* ---------------------------------------------------------------------

\* The index of cell c in the list get_neighborhood returns for the set
\* `cells`. Both programs get their list from the same call, so any fixed
\* order serves: by x, then by y.
ListIndex(c, cells) ==
  Cardinality({d \in cells : d[1] < c[1] \/ (d[1] = c[1] /\ d[2] <= c[2])})

\* random.choice(adjacent_cells) when the index drawn is `drawn`: the element
\* at that index, or any element when the list is shorter.
ChoiceAt(adjacent_cells, drawn) ==
  IF drawn <= Cardinality(adjacent_cells)
  THEN {c \in adjacent_cells : ListIndex(c, adjacent_cells) = drawn}
  ELSE adjacent_cells

\* ChoiceAt(adjacent_cells, ListIndex(cell, cells)) for a cell of cells; equal
\* lists hold the same element at the same index.
SameDraw(adjacent_cells, cell, cells) ==
  IF adjacent_cells = cells THEN {cell}
  ELSE ChoiceAt(adjacent_cells, ListIndex(cell, cells))

\* What random.choice(adjacent_cells) can return in cleaning_robot.py: the
\* element at the index random.choice drew in main.py, when main.py moved
\* robot r in this activation (validCells keeps the order of the
\* neighbourhood list); any element when main.py drew nothing.
Twin_choice(r) ==
  IF pos'[r] # pos[r]
  THEN SameDraw(get_neighborhood(twin.pos[r]), pos'[r], validCells(pos[r]))
  ELSE get_neighborhood(twin.pos[r])

\* CleaningRobot.step of cleaning_robot.py, on the twin
Twin_CleaningRobot_step(r) ==
  IF twin.status[twin.pos[r]] = 1
  THEN twin' = [twin EXCEPT !.status[twin.pos[r]] = 0]
  ELSE \E next_position \in Twin_choice(r) :
         twin' = [twin EXCEPT !.pos[r] = next_position]

\* the condition of the if in CleaningSimulation.step of cleaning_robot.py
Twin_BudgetSpent == twin.steps_remaining <= 0

InitPair ==
  \E width \in 2..MaxCells, height \in 2..MaxCells, count \in 1..MaxRobots,
     dirtTenths \in DirtPercentages \cap (0..10),
     budget \in (MaxRounds - 1)..MaxRounds :
    /\ width * height <= MaxCells
    /\ CleaningSimulation_init("main", width, height, count, dirtTenths, MaxClock, 0)
    /\ horizon = "bounded"
    /\ twin = [live |-> TRUE, status |-> status, pos |-> pos,
               steps_remaining |-> budget, running |-> TRUE]

\* step() of both simulations is called; the pair stays live when both go on
\* to run a round, and is followed no further once one of them has stopped.
PairStep ==
  /\ twin.live
  /\ CleaningSimulation_step
  /\ twin' = IF Twin_BudgetSpent
             THEN [twin EXCEPT !.running = FALSE, !.live = FALSE]
             ELSE IF pc' = "round" THEN twin
                  ELSE [twin EXCEPT !.live = FALSE]

\* both schedulers activate the next robot of the common order
PairActivate ==
  /\ twin.live
  /\ Activate
  /\ Twin_CleaningRobot_step(Head(order))

\* both schedule.step() calls return
PairScheduleReturn ==
  /\ twin.live
  /\ ScheduleReturn
  /\ twin' = [twin EXCEPT !.steps_remaining = @ - 1]

NextPair ==
  \/ PairStep
  \/ PairActivate
  \/ PairScheduleReturn

SpecPair == InitPair /\ [][NextPair]_vars

\* =====================================================================
\* Properties
\* =====================================================================

Constructed == pc # "failed"

\* Every step of the model that leaves an idle simulation is one call of
\* step(); in main.py the elapsed time that call read is now'.

\* C1: in main.py a call of step() sets running to false iff, at that call,
\* cleanCells >= initialDirtyCells or the elapsed time read is >= maxTime; in
\* that case no round is executed (no agent is activated, tiles, positions and
\* the round counter are unchanged); otherwise running stays true and exactly
\* one scheduler round is executed: every robot is activated once, and the
\* round counter rises by one when the scheduler returns.
C1_GoalTermination ==
  [][ variant = "main" =>
        /\ pc = "idle" =>
             IF cleanCells >= initialDirtyCells \/ now' >= maxTime
             THEN /\ ~running'
                  /\ pc' = "idle"
                  /\ UNCHANGED <<status, pos, stepsExecuted, rounds, cleanCells,
                                 cellsCleaned, totalMovements>>
             ELSE /\ running /\ running'
                  /\ pc' = "round"
                  /\ order' \in Shuffles(Robots)
                  /\ UNCHANGED <<stepsExecuted, rounds>>
        /\ pc = "round" =>
             /\ running /\ running'
             /\ IF order # << >>
                THEN /\ order' = Tail(order)
                     /\ pc' = "round"
                     /\ UNCHANGED <<stepsExecuted, rounds>>
                ELSE /\ pc' = "idle"
                     /\ stepsExecuted' = stepsExecuted + 1
                     /\ rounds' = rounds + 1 ]_vars

\* C1 witness: step() ended the simulation because every initially dirty cell
\* was clean, after at least one executed round and before the time budget.
C1_Witness ==
  /\ variant = "main"
  /\ ~running
  /\ stepsExecuted >= 1
  /\ initialDirtyCells > 0
  /\ cleanCells >= initialDirtyCells
  /\ now < maxTime

\* C2: in cleaning_robot.py, for every budget N >= 0 exactly N rounds are
\* executed and then the simulation terminates: every executed round lowers
\* steps_remaining by exactly 1, steps_remaining is never negative, and the
\* step() call that finds it at 0 sets running to false and executes no round.
C2_RoundBudget ==
  /\ [] ( (variant = "minimal" /\ Constructed) =>
            /\ steps_remaining >= 0
            /\ rounds + steps_remaining = steps_budget
            /\ (~running => steps_remaining = 0 /\ rounds = steps_budget) )
  /\ [][ variant = "minimal" =>
           /\ pc = "idle" =>
                IF steps_remaining = 0
                THEN /\ ~running'
                     /\ pc' = "idle"
                     /\ UNCHANGED <<status, pos, steps_remaining, rounds>>
                ELSE /\ running /\ running'
                     /\ pc' = "round"
                     /\ order' \in Shuffles(Robots)
                     /\ UNCHANGED <<steps_remaining, rounds>>
           /\ pc = "round" =>
                IF order # << >>
                THEN UNCHANGED <<steps_remaining, rounds>>
                ELSE /\ steps_remaining' = steps_remaining - 1
                     /\ rounds' = rounds + 1
                     /\ pc' = "idle" ]_vars

\* C2 witness: a budget of at least 2 rounds was used up and step() then
\* terminated the simulation.
C2_Witness ==
  /\ variant = "minimal"
  /\ steps_budget >= 2
  /\ rounds = steps_budget
  /\ ~running

\* C3: in both variants a tile's status only changes from Dirty (1) to Clean
\* (0), and only in the activation of a robot standing on that tile.
C3_DirtyToCleanOnly ==
  [][ \A c \in DOMAIN status :
        status'[c] # status[c] =>
          /\ status[c] = 1
          /\ status'[c] = 0
          /\ pc = "round"
          /\ order # << >>
          /\ pos[Head(order)] = c ]_vars

\* C3 witness: during a round a tile that was Dirty when the round began is
\* Clean.
C3_Witness ==
  /\ pc = "round"
  /\ \E c \in DOMAIN status : roundStart.status[c] = 1 /\ status[c] = 0

\* Position of robot r in the order the scheduler shuffled for this round.
C4_Turn(r) == CHOOSE i \in 1..Len(roundStart.order) : roundStart.order[i] = r

C4_RoundOver == pc = "round" /\ order = << >>

C4_OnDirtyAtStart(r) == roundStart.status[roundStart.pos[r]] = 1

\* C4 as claimed: whatever the number of robots, also when several share a
\* cell, a robot that is on a Dirty tile when a round begins has the same
\* coordinate when all agents of that round have been activated.
C4_Claimed ==
  C4_RoundOver =>
    \A r \in Robots : C4_OnDirtyAtStart(r) => pos[r] = roundStart.pos[r]

\* C4 amended: a robot that is on a Dirty tile when a round begins has the same
\* coordinate at the end of that round, provided no robot sharing its cell at
\* round start is activated before it in that round.
C4_CleaningPrecedesMoving ==
  C4_RoundOver =>
    \A r \in Robots :
      ( /\ C4_OnDirtyAtStart(r)
        /\ \A q \in Robots \ {r} :
             roundStart.pos[q] = roundStart.pos[r] => C4_Turn(r) < C4_Turn(q) )
      => pos[r] = roundStart.pos[r]

\* C4 witness: two robots began a round on the same Dirty tile; the round is
\* over, the one activated first is still there and the tile is Clean.
C4_Witness ==
  /\ C4_RoundOver
  /\ robotCount = 2
  /\ roundStart.pos[1] = roundStart.pos[2]
  /\ C4_OnDirtyAtStart(1)
  /\ pos[roundStart.order[1]] = roundStart.pos[1]
  /\ status[roundStart.pos[1]] = 0

\* C5: once running is false, further step() calls change no tile status, no
\* robot position, no counter and not the running flag, in both variants.
C5_TerminatedIsIdempotent ==
  [][ ~running =>
        UNCHANGED <<status, pos, cleanCells, cellsCleaned, totalMovements,
                    stepsExecuted, steps_remaining, running>> ]_vars

\* C5 witness: step() has been called on a simulation whose running flag was
\* already false.
C5_Witness == ~running /\ extraCalls >= 1

\* The termination condition of each variant, for an elapsed time e.
C6_ConditionMet(e) ==
  IF variant = "main"
  THEN cleanCells >= initialDirtyCells \/ e >= maxTime
  ELSE steps_remaining <= 0

\* C6: running is true in every state of a constructed simulation in which no
\* termination condition is met; a step() call made when a termination
\* condition is met leaves running false; and once running is false no step()
\* call makes it true again.
C6_RunningFlag ==
  /\ [] ( (Constructed /\ ~C6_ConditionMet(now)) => running )
  /\ [][ /\ (pc = "idle" /\ C6_ConditionMet(now')) => ~running'
         /\ ~running => ~running' ]_vars

\* C6 witness: the time budget expired with dirty cells left, step() set
\* running to false, and step() was called again.
C6_Witness ==
  /\ variant = "main"
  /\ ~running
  /\ cleanCells < initialDirtyCells
  /\ now >= maxTime
  /\ extraCalls >= 1

\* C7 as claimed: with dirtPercentage = 0 (initial dirty-cell count 0) in
\* main.py, getStatistics() returns completion percentage 0 and raises nothing
\* at any point, no round is ever executed, and no step() call raises.
C7_Claimed ==
  (variant = "main" /\ Constructed /\ dirtPercentage = 0 /\ robotCount >= 1) =>
    /\ getStatistics(now).error = "none"
    /\ getStatistics(now).PorcentajeCompletado.num = 0
    /\ stepsExecuted = 0
    /\ pc = "idle"
    /\ err = "none"

\* C8 as claimed: no constructed (Running) simulation has zero robots, a
\* non-positive width or height, or a dirtPercentage outside [0, 1].
C8_Claimed ==
  Constructed =>
    /\ robotCount >= 1
    /\ gridWidth > 0
    /\ gridHeight > 0
    /\ 0 <= dirtPercentage
    /\ dirtPercentage <= 10

\* C9: on every grid with width > 0 and height > 0, every robot placed on the
\* grid has 0 <= x < width and 0 <= y < height in every reachable state, the
\* state right after the placement at (1,1) included.
C9_RobotsInBounds ==
  (gridWidth > 0 /\ gridHeight > 0) =>
    \A r \in DOMAIN pos :
      /\ 0 <= pos[r][1] /\ pos[r][1] < gridWidth
      /\ 0 <= pos[r][2] /\ pos[r][2] < gridHeight

\* C9 witness: after two rounds a robot stands on the edge x = width - 1 of a
\* grid wider than it is high, away from its initial position.
C9_Witness ==
  /\ pc = "idle"
  /\ rounds >= 2
  /\ gridWidth > gridHeight
  /\ \E r \in DOMAIN pos : pos[r][1] = gridWidth - 1 /\ pos[r] # initialPosition

\* C10 as claimed: on the 1x1 grid, with otherwise valid parameters,
\* construction succeeds and no call raises an error, in both variants.
C10_Claimed ==
  ( /\ gridWidth = 1 /\ gridHeight = 1
    /\ robotCount >= 1
    /\ 0 <= dirtPercentage /\ dirtPercentage <= 10 )
  => (Constructed /\ err = "none")

\* The number of entities on the grid, counted cell by cell.
C11_Placed ==
  SumOver([c \in DOMAIN grid |-> Cardinality(grid[c])], DOMAIN grid)

\* C11: in a constructed simulation, after construction and after any
\* activation or round, the grid holds width*height + robotCount entities:
\* every coordinate holds exactly one tile (its own), and every robot is in
\* exactly one cell, the one its pos names.
C11_EntitiesConserved ==
  Constructed =>
    /\ DOMAIN grid = Coordinates(gridWidth, gridHeight)
    /\ C11_Placed = gridWidth * gridHeight + robotCount
    /\ \A c \in DOMAIN grid : {e \in grid[c] : e[1] = "tile"} = {GridTile(c)}
    /\ \A r \in Robots : {c \in DOMAIN grid : CleaningRobot(r) \in grid[c]} = {pos[r]}

\* C11 witness: two robots, two completed rounds, the robots in different
\* cells and a tile cleaned.
C11_Witness ==
  /\ pc = "idle"
  /\ robotCount = 2
  /\ rounds >= 2
  /\ pos[1] # pos[2]
  /\ \E c \in DOMAIN status : status[c] = 0 /\ c = initialPosition

\* C12: across any sequence of step() calls cleanCells, every robot's
\* cellsCleaned and every robot's totalMovements never decrease; each changes
\* by at most +1 in the activation of a robot and not at all outside one.
C12_CountersMonotonic ==
  [][ /\ cleanCells' - cleanCells \in {0, 1}
      /\ \A r \in DOMAIN pos :
           /\ cellsCleaned'[r] - cellsCleaned[r] \in {0, 1}
           /\ totalMovements'[r] - totalMovements[r] \in {0, 1}
      /\ ~(pc = "round" /\ order # << >>) =>
           UNCHANGED <<cleanCells, cellsCleaned, totalMovements>> ]_vars

\* C12 witness: a robot of main.py has both cleaned a cell and moved.
C12_Witness ==
  /\ variant = "main"
  /\ \E r \in DOMAIN pos : cellsCleaned[r] >= 1 /\ totalMovements[r] >= 1

\* Movements of robots 1..n added up one robot at a time.
RECURSIVE C13_Movements(_)
C13_Movements(n) == IF n = 0 THEN 0 ELSE totalMovements[n] + C13_Movements(n - 1)

\* C13: in every state of main.py with initialDirtyCells > 0, getStatistics()
\* raises nothing and returns completion percentage 100 * cleanCells /
\* initialDirtyCells and the sum of totalMovements over all robots; once the
\* simulation has terminated with all initially dirty cells clean, cleanCells
\* equals initialDirtyCells and the percentage is exactly 100.
C13_Statistics ==
  (variant = "main" /\ Constructed /\ initialDirtyCells > 0) =>
    LET stats == getStatistics(now) IN
      /\ stats.error = "none"
      /\ stats.PorcentajeCompletado.den > 0
      /\ stats.PorcentajeCompletado.num * initialDirtyCells
            = 100 * cleanCells * stats.PorcentajeCompletado.den
      /\ stats.MovimientosTotales = C13_Movements(robotCount)
      /\ (~running /\ cleanCells >= initialDirtyCells) =>
            /\ cleanCells = initialDirtyCells
            /\ stats.PorcentajeCompletado.num = 100 * stats.PorcentajeCompletado.den

\* C13 witness: two robots, both have moved, the simulation terminated with
\* every initially dirty cell clean before the time budget expired.
C13_Witness ==
  /\ variant = "main"
  /\ robotCount = 2
  /\ initialDirtyCells > 0
  /\ cleanCells = initialDirtyCells
  /\ ~running
  /\ now < maxTime
  /\ totalMovements[1] >= 1 /\ totalMovements[2] >= 1

\* C14: for all valid (width, height, dirtPercentage), immediately after
\* construction the number of Dirty tiles is floor(width * height *
\* dirtPercentage) with dirtPercentage the rational dirtTenths / 10, and is
\* the recorded initialDirtyCells; the dirty coordinates are distinct because
\* status holds one tile per coordinate.
DirtyTiles == {c \in DOMAIN status : status[c] = 1}

C14_Claimed ==
  (/\ Constructed /\ rounds = 0 /\ pc = "idle" /\ extraCalls = 0
   /\ gridWidth >= 1 /\ gridHeight >= 1 /\ robotCount >= 1
   /\ dirtPercentage \in 0..10)
  => /\ Cardinality(DirtyTiles) = (gridWidth * gridHeight * dirtPercentage) \div 10
     /\ variant = "main" => initialDirtyCells = Cardinality(DirtyTiles)

\* C18: in main.py, in every reachable state, cleanCells plus the number of
\* Dirty tiles is initialDirtyCells, cleanCells is the sum of cellsCleaned over
\* the robots, 0 <= cleanCells <= initialDirtyCells, and cleanCells >=
\* initialDirtyCells holds exactly when no tile is Dirty.
C18_Accounting ==
  (Constructed /\ variant = "main") =>
    /\ cleanCells + Cardinality(DirtyTiles) = initialDirtyCells
    /\ cleanCells = SumOver(cellsCleaned, Robots)
    /\ 0 <= cleanCells /\ cleanCells <= initialDirtyCells
    /\ (cleanCells >= initialDirtyCells) <=> (DirtyTiles = {})

C18_Witness ==
  /\ Constructed /\ variant = "main" /\ robotCount = 2
  /\ cellsCleaned[1] >= 1 /\ cellsCleaned[2] >= 1
  /\ DirtyTiles # {}

\* C19: in main.py, on a grid of at least 2 cells, after every completed
\* round each robot has cellsCleaned + totalMovements = stepsExecuted, so the
\* movements total, which is the MovimientosTotales statistic, is
\* robotCount * stepsExecuted - cleanCells.
C19_RobotAccounting ==
  (/\ Constructed /\ variant = "main" /\ pc = "idle"
   /\ gridWidth * gridHeight >= 2)
  => /\ \A r \in Robots : cellsCleaned[r] + totalMovements[r] = stepsExecuted
     /\ SumOver(totalMovements, Robots) = robotCount * stepsExecuted - cleanCells
     /\ getStatistics(now).error = "none" =>
          getStatistics(now).MovimientosTotales
            = robotCount * stepsExecuted - cleanCells

C19_Witness ==
  /\ variant = "main" /\ pc = "idle" /\ robotCount = 2 /\ stepsExecuted = 2
  /\ \E r \in Robots : cellsCleaned[r] = 1 /\ totalMovements[r] = 1
  /\ \E r \in Robots : totalMovements[r] = 2

\* C17: one activation of a main.py robot r either cleans (its tile was Dirty:
\* the tile becomes Clean, cellsCleaned[r] and cleanCells rise by 1, position
\* and totalMovements[r] stay) or moves (no status and no clean counter
\* changes, totalMovements[r] rises by 1, the new cell is on the grid at
\* Chebyshev distance exactly 1 from the old one); the other robots keep
\* their positions and counters. The candidates from corner (0,0) of a grid
\* with both sides at least 2 are exactly (0,1), (1,0) and (1,1).
C17_Abs(n) == IF n < 0 THEN -n ELSE n

C17_Chebyshev(a, b) ==
  IF C17_Abs(a[1] - b[1]) >= C17_Abs(a[2] - b[2])
  THEN C17_Abs(a[1] - b[1]) ELSE C17_Abs(a[2] - b[2])

C17_Cleans(r) ==
  /\ status[pos[r]] = 1
  /\ status' = [status EXCEPT ![pos[r]] = 0]
  /\ cellsCleaned'[r] = cellsCleaned[r] + 1
  /\ cleanCells' = cleanCells + 1
  /\ pos'[r] = pos[r]
  /\ totalMovements'[r] = totalMovements[r]

C17_Moves(r) ==
  /\ status[pos[r]] = 0
  /\ status' = status
  /\ cleanCells' = cleanCells
  /\ cellsCleaned'[r] = cellsCleaned[r]
  /\ totalMovements'[r] = totalMovements[r] + 1
  /\ pos'[r] \in Coordinates(gridWidth, gridHeight)
  /\ C17_Chebyshev(pos[r], pos'[r]) = 1

C17_OneActivation ==
  [][(variant = "main" /\ pc = "round" /\ order # << >>) =>
       LET r == Head(order)
       IN /\ (C17_Cleans(r) /\ ~C17_Moves(r)) \/ (C17_Moves(r) /\ ~C17_Cleans(r))
          /\ \A q \in Robots \ {r} :
               /\ pos'[q] = pos[q]
               /\ cellsCleaned'[q] = cellsCleaned[q]
               /\ totalMovements'[q] = totalMovements[q]
          /\ validCells(pos[r]) = {c \in Coordinates(gridWidth, gridHeight) :
                                     C17_Chebyshev(pos[r], c) = 1}
          /\ validCells(<<0, 0>>) = {<<0, 1>>, <<1, 0>>, <<1, 1>>}]_vars

\* a robot that cleaned earlier, and a robot that has just moved out of corner (0,0)
C17_Witness ==
  /\ variant = "main" /\ pc = "round"
  /\ \E r \in Robots : cellsCleaned[r] >= 1
  /\ \E r \in Robots : roundStart.pos[r] = <<0, 0>> /\ pos[r] # <<0, 0>>

\* C16: a step() call of main.py that does not terminate activates every
\* robot exactly once, one after another in the round's order, and adds
\* exactly 1 to stepsExecuted; when two or more robots start the round on the
\* same Dirty tile, the first of them in the order cleans it (cleanCells
\* rises by 1 for that tile) and the others find it Clean and move.
C16_Activated == {roundStart.order[i] : i \in 1..(Len(roundStart.order) - Len(order))}

C16_Activations(r) ==
  (cellsCleaned[r] - roundStart.cellsCleaned[r])
    + (totalMovements[r] - roundStart.totalMovements[r])

C16_Sharing(c) == {r \in Robots : roundStart.pos[r] = c}

\* the robot of C16_Sharing(c) that comes first in the round's order
C16_First(c) ==
  roundStart.order[CHOOSE i \in 1..Len(roundStart.order) :
                     /\ roundStart.order[i] \in C16_Sharing(c)
                     /\ \A j \in 1..(i - 1) : roundStart.order[j] \notin C16_Sharing(c)]

C16_InRound ==
  /\ Len(roundStart.order) = robotCount
  /\ {roundStart.order[i] : i \in 1..robotCount} = Robots
  /\ order = SubSeq(roundStart.order, robotCount - Len(order) + 1, robotCount)
  /\ \A r \in Robots :
       C16_Activations(r) = IF r \in C16_Activated THEN 1 ELSE 0
  /\ stepsExecuted = roundStart.stepsExecuted
  /\ cleanCells - roundStart.cleanCells
       = Cardinality({c \in DOMAIN status : roundStart.status[c] = 1 /\ status[c] = 0})
  /\ \A c \in DOMAIN status :
       (roundStart.status[c] = 1 /\ Cardinality(C16_Sharing(c)) >= 2) =>
         \A r \in C16_Sharing(c) \cap C16_Activated :
           IF r = C16_First(c)
           THEN /\ cellsCleaned[r] = roundStart.cellsCleaned[r] + 1
                /\ pos[r] = c
           ELSE /\ cellsCleaned[r] = roundStart.cellsCleaned[r]
                /\ totalMovements[r] = roundStart.totalMovements[r] + 1
                /\ pos[r] # c

C16_OneRoundPerCall ==
  [][variant = "main" =>
       /\ (pc = "idle" /\ pc' = "round") =>
            /\ roundStart' = Snapshot(order')
            /\ C16_InRound'
       /\ (pc = "round" /\ pc' = "round") => C16_InRound'
       /\ (pc = "round" /\ pc' = "idle") =>
            /\ C16_Activated = Robots
            /\ stepsExecuted' = roundStart.stepsExecuted + 1]_vars

\* the end of a round that two robots started on the same Dirty tile
C16_Witness ==
  /\ variant = "main" /\ pc = "round" /\ order = << >> /\ robotCount = 2
  /\ roundStart.pos[1] = roundStart.pos[2]
  /\ roundStart.status[roundStart.pos[1]] = 1

\* C20: a main.py simulation and a cleaning_robot.py simulation started from
\* the same grid, dirty set and robots, with the same activation orders and
\* the same neighbour draws, have the same tile statuses and robot positions
\* after every round both execute (and after every activation of it), on
\* every grid with at least 2 cells in each direction.
C20_SameRoom ==
  twin.live => (twin.status = status /\ twin.pos = pos)

\* two rounds executed by both, in which tiles were cleaned and robots moved
C20_Witness ==
  /\ twin.live /\ pc = "idle" /\ rounds = 2 /\ robotCount = 2
  /\ cleanCells >= 1
  /\ pos[1] # pos[2]
  /\ \E r \in Robots : totalMovements[r] = 2

\* C15: the simulation terminates. In main.py with at least one robot on a
\* grid of at least 2 cells, when each robot's neighbour choice is fair,
\* running eventually becomes false, and every Dirty tile is eventually
\* cleaned unless the time budget expires first; in cleaning_robot.py running
\* eventually becomes false.
C15_Minimal == Constructed /\ variant = "minimal"

C15_Main ==
  /\ Constructed /\ variant = "main"
  /\ robotCount >= 1 /\ gridWidth * gridHeight >= 2

C15_Stopped == ~running

C15_CleanOrLate == DirtyTiles = {} \/ now >= maxTime

C15_Terminates ==
  /\ C15_Minimal => <>C15_Stopped
  /\ C15_Main => (<>C15_Stopped /\ <>C15_CleanOrLate)

\* a run of any length that ended because all tiles were clean
C15_Witness ==
  /\ variant = "main" /\ horizon = "unbounded" /\ ~running
  /\ initialDirtyCells = 4 /\ DirtyTiles = {} /\ now < maxTime
====
